---- MODULE Spec2Model ----
(***************************************************************************)
(* Order lifecycle service (server/polar/order/service.py, OrderService).  *)
(*                                                                         *)
(* The state is the part of the database the service reads and writes: the *)
(* orders table, the organization's invoice-number counter, the payout     *)
(* account, the payments and the ledger (payment transactions, held        *)
(* balances, balance transfers).  Every service method is one action; it   *)
(* runs inside the caller's unit of work, so a raised error leaves the     *)
(* database as it was.  `last` records the call that just ran (method,     *)
(* arguments, raised error or "ok") and `effects` the calls it made to the *)
(* external collaborators (webhooks, jobs, notifications, events), in the  *)
(* order the code makes them.                                              *)
(***************************************************************************)
EXTENDS Integers, Sequences, FiniteSets, Bags, TLC

VARIABLES
    orders,                 \* Seq of Order rows; an order's id is its index
    next_invoice_number,    \* the organization's invoice-number counter
    organization_exists,    \* whether OrganizationRepository.get_by_id finds it
    account,                \* whether the organization has a payout account
    payments,               \* Payment.order, per payment processor id
    payment_transactions,   \* payment Transaction per charge: recorded, order
    held_balances,          \* Seq of HeldBalance rows
    balance_transactions,   \* Seq of balance transfers
    last,                   \* the call that just ran
    effects,                \* the external calls it made, in order
    queue,                  \* the job system: the jobs enqueued and not yet run
    in_flight               \* settlements that looked up and have not yet written

vars == <<orders, next_invoice_number, organization_exists, account, payments,
          payment_transactions, held_balances, balance_transactions, last, effects,
          queue, in_flight>>

db == <<orders, next_invoice_number, organization_exists, account, payments,
        payment_transactions, held_balances, balance_transactions>>

\* What lies outside the service's own transaction: the job system and the
\* invocations that run beside it.  A service method leaves both alone; the
\* specifications that run jobs or concurrent invocations say how they change.
background == <<queue, in_flight>>

None == "None"

(***************************************************************************)
(* Bounds of the model.                                                    *)
(***************************************************************************)
MaxOrders == 2

NoOrder == 0

OrderIds == 1..Len(orders)

(***************************************************************************)
(* Small helpers.                                                          *)
(***************************************************************************)
RECURSIVE SeqSum(_)
SeqSum(s) == IF s = <<>> THEN 0 ELSE Head(s) + SeqSum(Tail(s))

RECURSIVE Count(_, _, _)
Count(s, kind, name) ==
    IF s = <<>> THEN 0
    ELSE (IF Head(s).kind = kind /\ Head(s).name = name THEN 1 ELSE 0)
         + Count(Tail(s), kind, name)

Range(s) == {s[i] : i \in DOMAIN s}

\* The record of a call: the method, the order it acted on, the error it raised
\* ("ok" for none) and its arguments; `was` is the status the order had before
\* an invoice update, and `repeated` tells that the call before it was the same
\* call, on the same order with the same arguments.
Call(op, order, result, input) ==
    [op |-> op, order |-> order, result |-> result, input |-> input,
     was |-> None,
     repeated |-> last.op = op /\ last.order = order /\ last.input = input]

\* A call to a collaborator: what it is, the order it is made for, its
\* argument, the units it carries and, for a read, what it returned.
Effect(kind, name, order, arg) ==
    [kind |-> kind, name |-> name, order |-> order, arg |-> arg, units |-> 0,
     returned |-> None]

\* Order.paid
paid(order) == order.status = "paid"

\* Order.net_amount and Order.total_amount
net_amount(order) == order.subtotal_amount - order.discount_amount

total_amount(order) == net_amount(order) + order.tax_amount

(***************************************************************************)
(* Transition notifier.                                                    *)
(***************************************************************************)
\* send_webhook: the webhook goes out only when the organization resolves.
send_webhook(id, event_type) ==
    IF organization_exists
    THEN <<Effect("webhook", event_type, id, None)>>
    ELSE <<>>

\* Variant: the grant cycles enqueued for every order of a subscription.
_on_order_paid_any_subscription(id, order) ==
    send_webhook(id, "order_paid")
    \o (IF order.subscription # None
        THEN <<Effect("job", "benefit.enqueue_benefit_grant_cycles", id,
                      order.subscription)>>
        ELSE <<>>)

_on_order_paid(id, order) ==
    send_webhook(id, "order_paid")
    \o (IF order.subscription # None /\ order.billing_reason = "subscription_cycle"
        THEN <<Effect("job", "benefit.enqueue_benefit_grant_cycles", id,
                      order.subscription)>>
        ELSE <<>>)

\* Variant: the paid-transition effects run whatever the status.
_on_order_created_always_paid(id, order) ==
    send_webhook(id, "order_created")
    \o <<Effect("job", "order.discord_notification", id, None)>>
    \o _on_order_paid(id, order)
    \o (IF order.checkout # None
        THEN <<Effect("checkout_event", "order_created", id, order.checkout)>>
        ELSE <<>>)

_on_order_created(id, order) ==
    send_webhook(id, "order_created")
    \o <<Effect("job", "order.discord_notification", id, None)>>
    \o (IF paid(order) THEN _on_order_paid(id, order) ELSE <<>>)
    \o (IF order.checkout # None
        THEN <<Effect("checkout_event", "order_created", id, order.checkout)>>
        ELSE <<>>)

\* Variant: level-triggered.
became_paid_whenever_paid(status, previous_status) == status = "paid"

became_paid(status, previous_status) ==
    status = "paid" /\ previous_status # "paid"

\* Variant: the paid-transition effects run on every update of a paid order.
_on_order_updated_paid_effects_always(id, order, previous_status) ==
    send_webhook(id, "order_updated")
    \o (IF paid(order) THEN _on_order_paid(id, order) ELSE <<>>)

_on_order_updated(id, order, previous_status) ==
    send_webhook(id, "order_updated")
    \o (IF became_paid(order.status, previous_status)
        THEN _on_order_paid(id, order)
        ELSE <<>>)

(***************************************************************************)
(* Order update and invoice document controller.                           *)
(***************************************************************************)
invoice_locked_fields == {"billing_name", "billing_address"}

\* Variants of the lock: nothing is locked; locked with or without a document.
update_errors_unlocked(order, order_update) == {}

update_errors_always_locked(order, order_update) ==
    {field \in invoice_locked_fields :
        /\ field \in order_update.model_fields_set
        /\ order_update[field] # order[field]}

\* The fields of an update that the invoice lock rejects.
update_errors(order, order_update) ==
    IF order.invoice_path # None
    THEN {field \in invoice_locked_fields :
            /\ field \in order_update.model_fields_set
            /\ order_update[field] # order[field]}
    ELSE {}

\* OrderRepository.update with model_dump(exclude_unset=True)
apply_update(order, order_update) ==
    [order EXCEPT
        !.billing_name =
            IF "billing_name" \in order_update.model_fields_set
            THEN order_update.billing_name ELSE @,
        !.billing_address =
            IF "billing_address" \in order_update.model_fields_set
            THEN order_update.billing_address ELSE @,
        !.custom_field_data =
            IF "custom_field_data" \in order_update.model_fields_set
            THEN order_update.custom_field_data ELSE @]

\* Variant: the fields the lock does not reject are stored, and order_updated
\* sent, before the error is raised.
update_stores_before_raising(id, order_update) ==
    LET order == orders[id]
        errors == update_errors(order, order_update)
        kept == [order_update EXCEPT
                    !.model_fields_set = order_update.model_fields_set \ errors]
    IN  /\ orders' = [orders EXCEPT ![id] = apply_update(order, kept)]
        /\ last' = Call("update", id,
                        IF errors # {} THEN "PolarRequestValidationError" ELSE "ok",
                        [order_update |-> order_update, loc |-> errors])
        /\ effects' = send_webhook(id, "order_updated")
        /\ UNCHANGED <<next_invoice_number, organization_exists, account,
                       payments, payment_transactions, held_balances,
                       balance_transactions>>

update(id, order_update) ==
    LET order == orders[id]
        errors == update_errors(order, order_update)
    IN  IF errors # {}
        THEN /\ last' = Call("update", id, "PolarRequestValidationError",
                             [order_update |-> order_update, loc |-> errors])
             /\ effects' = <<>>
             /\ UNCHANGED db
        ELSE /\ orders' = [orders EXCEPT ![id] = apply_update(order, order_update)]
             /\ last' = Call("update", id, "ok",
                             [order_update |-> order_update, loc |-> {}])
             /\ effects' = send_webhook(id, "order_updated")
             /\ UNCHANGED <<next_invoice_number, organization_exists, account,
                            payments, payment_transactions, held_balances,
                            balance_transactions>>

\* Variant: the payment looked at before the document.
trigger_invoice_generation_result_paid_first(order) ==
    IF ~ paid(order) THEN "NotPaidOrder"
    ELSE IF order.invoice_path # None THEN "InvoiceAlreadyExists"
    ELSE IF order.billing_name = None \/ order.billing_address = None
         THEN "MissingInvoiceBillingDetails"
    ELSE "ok"

\* The error trigger_invoice_generation raises, "ok" when it raises none.
trigger_invoice_generation_result(order) ==
    IF order.invoice_path # None THEN "InvoiceAlreadyExists"
    ELSE IF ~ paid(order) THEN "NotPaidOrder"
    ELSE IF order.billing_name = None \/ order.billing_address = None
         THEN "MissingInvoiceBillingDetails"
    ELSE "ok"

\* invoice_service.create_order_invoice: the path of the rendered document
create_order_invoice(id) == "invoice.pdf"

\* Variant: the document is generated in the call itself.
trigger_invoice_generation_inline(id) ==
    LET result == trigger_invoice_generation_result(orders[id])
    IN  /\ last' = Call("trigger_invoice_generation", id, result, [none |-> None])
        /\ effects' = <<>>
        /\ orders' = IF result = "ok"
                      THEN [orders EXCEPT ![id].invoice_path = create_order_invoice(id)]
                      ELSE orders
        /\ UNCHANGED <<next_invoice_number, organization_exists, account,
                       payments, payment_transactions, held_balances,
                       balance_transactions>>

trigger_invoice_generation(id) ==
    LET result == trigger_invoice_generation_result(orders[id])
    IN  /\ last' = Call("trigger_invoice_generation", id, result, [none |-> None])
        /\ effects' = IF result = "ok"
                      THEN <<Effect("job", "order.invoice", id, None)>>
                      ELSE <<>>
        /\ UNCHANGED db

generate_invoice(id) ==
    /\ orders' = [orders EXCEPT ![id].invoice_path = create_order_invoice(id)]
    /\ last' = Call("generate_invoice", id, "ok", [none |-> None])
    /\ effects' = <<Effect("eventstream", "order.invoice_generated", id, None)>>
                  \o send_webhook(id, "order_updated")
    /\ UNCHANGED <<next_invoice_number, organization_exists, account, payments,
                   payment_transactions, held_balances, balance_transactions>>

\* Variant: the document is not looked for.
get_order_invoice_result_unchecked(order) == "ok"

get_order_invoice_result(order) ==
    IF order.invoice_path = None THEN "InvoiceDoesNotExist" ELSE "ok"

get_order_invoice(id) ==
    LET result == get_order_invoice_result(orders[id])
    IN  /\ last' = Call("get_order_invoice", id, result, [none |-> None])
        /\ effects' = IF result = "ok"
                      THEN <<Effect("invoice_service", "get_order_invoice_url", id,
                                    orders[id].invoice_path)>>
                      ELSE <<>>
        /\ UNCHANGED db

(***************************************************************************)
(* Checkout-to-order converter.                                            *)
(***************************************************************************)
\* Customer rows: billing name, billing address and tax id.
Customer(customer) ==
    CASE customer = "cus_1" ->
            [billing_name |-> "Ann", billing_address |-> "FR", tax_id |-> None]
      [] OTHER ->
            [billing_name |-> None, billing_address |-> None, tax_id |-> None]

is_custom_price(price) == price.amount_type = "custom"

\* OrderItem.from_price(price, tax_amount, amount): a custom price carries the
\* amount handed in, a fixed price its own price_amount.  The optional amount
\* is a sequence of length 0 or 1.
OrderItem_from_price(price, tax_amount, amount) ==
    [label |-> price.amount_type,
     amount |-> IF amount # <<>> THEN amount[1] ELSE price.price_amount,
     tax_amount |-> tax_amount,
     proration |-> FALSE,
     product_price |-> price.id]

\* Variant: every item carries the amount its price defines.
checkout_items_price_amounts(prices, checkout) ==
    [i \in 1..Len(prices) |-> OrderItem_from_price(prices[i], 0, <<>>)]

RECURSIVE checkout_items(_, _)
checkout_items(prices, checkout) ==
    IF prices = <<>> THEN <<>>
    ELSE <<IF is_custom_price(Head(prices))
           THEN OrderItem_from_price(Head(prices), 0, <<checkout.amount>>)
           ELSE OrderItem_from_price(Head(prices), 0, <<>>)>>
         \o checkout_items(Tail(prices), checkout)

\* Variants of the guard: the customer looked at first; the customer not
\* looked at.
create_from_checkout_guard_customer_first(checkout) ==
    IF checkout.customer = None THEN "MissingCheckoutCustomer"
    ELSE IF checkout.is_recurring THEN "RecurringProduct"
    ELSE "ok"

create_from_checkout_guard_no_customer_check(checkout) ==
    IF checkout.is_recurring THEN "RecurringProduct" ELSE "ok"

\* The error create_from_checkout raises before it builds anything.
create_from_checkout_guard(checkout) ==
    IF checkout.is_recurring THEN "RecurringProduct"
    ELSE IF checkout.customer = None THEN "MissingCheckoutCustomer"
    ELSE "ok"

\* checkout.tax_amount or 0: the optional amount is a sequence of length 0 or 1.
checkout_tax_amount(checkout) ==
    IF checkout.tax_amount = <<>> THEN 0 ELSE checkout.tax_amount[1]

\* The two assertions on the processor's tax calculation.
tax_calculation_ok(checkout, calculation) ==
    /\ checkout_tax_amount(checkout) = calculation.tax_amount_exclusive
    /\ Len(calculation.tax_breakdown) > 0

checkout_order(checkout, calculation, invoice_number) ==
    LET customer == Customer(checkout.customer)
        taxed == checkout.tax_processor_id # None
    IN  [status |-> "paid",
         subtotal_amount |-> checkout.amount,
         discount_amount |-> checkout.discount_amount,
         tax_amount |-> checkout_tax_amount(checkout),
         billing_reason |-> "purchase",
         billing_name |-> customer.billing_name,
         billing_address |-> customer.billing_address,
         taxability_reason |->
            IF taxed THEN calculation.tax_breakdown[1].taxability_reason ELSE None,
         tax_rate |-> IF taxed THEN calculation.tax_breakdown[1].tax_rate ELSE None,
         invoice_number |-> invoice_number,
         customer |-> checkout.customer,
         discount |-> checkout.discount,
         subscription |-> None,
         checkout |-> checkout.id,
         stripe_invoice_id |-> None,
         items |-> checkout_items(checkout.prices, checkout),
         invoice_path |-> None,
         tax_transaction_processor_id |-> None,
         refunded_amount |-> 0,
         refunded_tax_amount |-> 0,
         custom_field_data |-> None]

\* payment: Payment | None = None
NoPayment == [processor_id |-> None, amount |-> 0]

\* Variant: a payment is never linked.
links_payment_never(payment) == FALSE

\* if payment is not None
links_payment(payment) == payment # NoPayment

\* Variant: the amount is not compared.
payment_matches_unchecked(payment, order) == TRUE

\* The payment handed in must carry the order's total.
payment_matches(payment, order) == payment.amount = total_amount(order)

create_from_checkout_fails(checkout, payment, calculation, result, made) ==
    /\ last' = Call("create_from_checkout", NoOrder, result,
                    [checkout |-> checkout, payment |-> payment])
    /\ effects' = made
    /\ UNCHANGED db

create_from_checkout(checkout, payment, calculation) ==
    LET guard == create_from_checkout_guard(checkout)
        taxed == checkout.tax_processor_id # None
        read == IF taxed
                THEN <<Effect("stripe", "get_tax_calculation", NoOrder,
                              checkout.tax_processor_id)>>
                ELSE <<>>
        warned == IF taxed /\ Len(calculation.tax_breakdown) > 1
                  THEN <<Effect("log", "warning", NoOrder, checkout.id)>>
                  ELSE <<>>
        id == Len(orders) + 1
        order == checkout_order(checkout, calculation, next_invoice_number)
        created == [order EXCEPT !.tax_transaction_processor_id =
                        IF taxed THEN "tax_txn" ELSE None]
    IN  IF guard # "ok"
        THEN create_from_checkout_fails(checkout, payment, calculation, guard, <<>>)
        ELSE IF taxed /\ ~ tax_calculation_ok(checkout, calculation)
        THEN create_from_checkout_fails(checkout, payment, calculation,
                                        "AssertionError", read)
        ELSE IF links_payment(payment) /\ ~ payment_matches(payment, order)
        THEN create_from_checkout_fails(checkout, payment, calculation,
                                        "AssertionError", read \o warned)
        ELSE /\ Len(orders) < MaxOrders
             /\ orders' = Append(orders, created)
             /\ next_invoice_number' = next_invoice_number + 1
             /\ payments' = IF links_payment(payment)
                            THEN [payments EXCEPT ![payment.processor_id] = id]
                            ELSE payments
             /\ last' = Call("create_from_checkout", id, "ok",
                             [checkout |-> checkout, payment |-> payment])
             /\ effects' =
                    read \o warned
                    \o (IF links_payment(payment)
                        THEN <<Effect("job", "order.balance", id,
                                      payment.processor_id)>>
                        ELSE <<>>)
                    \o (IF taxed
                        THEN <<Effect("stripe", "create_tax_transaction", id,
                                      checkout.tax_processor_id)>>
                        ELSE <<>>)
                    \o <<Effect("job", "benefit.enqueue_benefits_grants", id, None),
                         Effect("notification", "maintainer_new_product_sale", id,
                                None),
                         Effect("email", "order_confirmation", id,
                                checkout.customer)>>
                    \o _on_order_created(id, created)
             /\ UNCHANGED <<organization_exists, account, payment_transactions,
                            held_balances, balance_transactions>>

(***************************************************************************)
(* Invoice reconciliation engine: creation path.                           *)
(***************************************************************************)
\* SubscriptionRepository.get_by_stripe_subscription_id, with its customer
\* and its meters; id is None when no local subscription matches.
Subscription(stripe_subscription_id) ==
    CASE stripe_subscription_id = "sub_stripe_1" ->
            [id |-> "sub_1", customer |-> "cus_1",
             meters |-> <<"meter_1", "meter_2">>]
      [] stripe_subscription_id = "sub_stripe_2" ->
            [id |-> "sub_2", customer |-> "cus_2", meters |-> <<>>]
      [] OTHER ->
            [id |-> None, customer |-> None, meters |-> <<>>]

\* discount_service.get and CheckoutRepository.get_by_id
Discount(discount_id) == IF discount_id = "disc_1" THEN "disc_1" ELSE None

Checkout(checkout_id) == IF checkout_id \in {"ck_1", "ck_2"} THEN checkout_id ELSE None

\* ProductPriceRepository.get_by_id and get_by_stripe_price_id
ProductPrice_by_id(product_price_id) ==
    IF product_price_id = "pp_1" THEN "pp_1" ELSE None

ProductPrice_by_stripe_price_id(stripe_price_id) ==
    IF stripe_price_id = "price_2" THEN "pp_2" ELSE None

NoPrice == [id |-> None, product_price_id |-> None]

_is_empty_customer_address(customer_address) == customer_address = None

\* Variant: the subscription looked at before the type of the invoice.
create_order_from_stripe_guard_subscription_first(invoice) ==
    IF invoice.subscription = None THEN "NotASubscriptionInvoice"
    ELSE IF Subscription(invoice.subscription).id = None
         THEN "SubscriptionDoesNotExist"
    ELSE IF invoice.metadata_type = "pledge" THEN "NotAnOrderInvoice"
    ELSE "ok"

\* The error create_order_from_stripe raises before it looks at the customer.
create_order_from_stripe_guard(invoice) ==
    IF invoice.metadata_type = "pledge" THEN "NotAnOrderInvoice"
    ELSE IF invoice.subscription = None THEN "NotASubscriptionInvoice"
    ELSE IF Subscription(invoice.subscription).id = None
         THEN "SubscriptionDoesNotExist"
    ELSE "ok"

\* Does the address come from the charge's card?
address_from_charge(customer, invoice) ==
    /\ customer.billing_address = None
    /\ _is_empty_customer_address(invoice.customer_address)
    /\ invoice.charge # None

resolve_billing_address(customer, invoice, card_country) ==
    IF customer.billing_address # None THEN customer.billing_address
    ELSE IF ~ _is_empty_customer_address(invoice.customer_address)
         THEN invoice.customer_address
    ELSE IF invoice.charge # None THEN card_country
    ELSE None

\* invoice.discount is None, or the discount id its coupon's metadata carries
\* ("no_metadata" when the coupon has no metadata).
discount_missing(invoice) ==
    /\ invoice.discount # None
    /\ \/ invoice.discount = "no_metadata"
       \/ Discount(invoice.discount) = None

invoice_checkout_id(invoice) ==
    IF invoice.metadata_checkout_id # None
    THEN invoice.metadata_checkout_id
    ELSE invoice.subscription_checkout_id

line_product_price(line) ==
    IF line.price = NoPrice THEN None
    ELSE IF line.price.product_price_id # None
         THEN ProductPrice_by_id(line.price.product_price_id)
    ELSE ProductPrice_by_stripe_price_id(line.price.id)

RECURSIVE invoice_items(_)
invoice_items(lines) ==
    IF lines = <<>> THEN <<>>
    ELSE <<[label |-> Head(lines).description,
            amount |-> Head(lines).amount,
            tax_amount |-> SeqSum(Head(lines).tax_amounts),
            proration |-> Head(lines).proration,
            product_price |-> line_product_price(Head(lines))]>>
         \o invoice_items(Tail(lines))

OrderBillingReason ==
    {"purchase", "subscription_create", "subscription_cycle", "subscription_update"}

invoice_billing_reason(invoice) ==
    IF invoice.billing_reason \in OrderBillingReason
    THEN invoice.billing_reason
    ELSE "subscription_cycle"

\* The loop over total_tax_amounts: the reason is the last one visited, the
\* rate the first one that converts, where the loop stops.
RECURSIVE invoice_tax(_, _)
invoice_tax(total_tax_amounts, reason) ==
    IF total_tax_amounts = <<>>
    THEN [taxability_reason |-> reason, tax_rate |-> None]
    ELSE IF Head(total_tax_amounts).tax_rate # None
         THEN [taxability_reason |-> Head(total_tax_amounts).taxability_reason,
               tax_rate |-> Head(total_tax_amounts).tax_rate]
    ELSE invoice_tax(Tail(total_tax_amounts),
                     Head(total_tax_amounts).taxability_reason)

\* Variant: an open invoice taken for a paid one.
invoice_status_open_as_paid(invoice) ==
    IF invoice.status \in {"paid", "open"} THEN "paid" ELSE "pending"

invoice_status(invoice) == IF invoice.status = "paid" THEN "paid" ELSE "pending"

\* Are the pending metered items pulled in, and is the invoice reloaded?
pulls_pending(invoice) == invoice.status = "draft"

reloads_invoice(invoice, pending_items) ==
    pulls_pending(invoice) /\ Len(pending_items) > 0

\* Variant: the descriptor set only after a reload.
updates_statement_descriptor_with_pending(invoice, pending_items) ==
    invoice.status = "draft" /\ Len(pending_items) > 0

updates_statement_descriptor(invoice, pending_items) ==
    invoice.status = "draft"

invoice_order(invoice, items, billing_address, invoice_number) ==
    LET subscription == Subscription(invoice.subscription)
        customer == Customer(subscription.customer)
        checkout == Checkout(invoice_checkout_id(invoice))
        tax == invoice_tax(invoice.total_tax_amounts, None)
    IN  [status |-> invoice_status(invoice),
         subtotal_amount |-> invoice.subtotal,
         discount_amount |-> SeqSum(invoice.total_discount_amounts),
         tax_amount |-> invoice.tax,
         billing_reason |-> invoice_billing_reason(invoice),
         billing_name |-> customer.billing_name,
         billing_address |-> billing_address,
         taxability_reason |-> tax.taxability_reason,
         tax_rate |-> tax.tax_rate,
         invoice_number |-> invoice_number,
         customer |-> subscription.customer,
         discount |-> IF invoice.discount = None THEN None
                      ELSE Discount(invoice.discount),
         subscription |-> subscription.id,
         checkout |-> checkout,
         stripe_invoice_id |-> invoice.id,
         items |-> items,
         invoice_path |-> None,
         tax_transaction_processor_id |-> None,
         refunded_amount |-> 0,
         refunded_tax_amount |-> 0,
         custom_field_data |-> None]

\* customer_meter_service.get_rollover_units and what it returned
get_rollover_units(id, meter, rollover_units) ==
    [Effect("customer_meter", "get_rollover_units", id, meter)
        EXCEPT !.returned = rollover_units[meter]]

\* Variant: the credit recorded whatever the units carried over.
RECURSIVE meter_events_always_credited(_, _, _)
meter_events_always_credited(id, meters, rollover_units) ==
    IF meters = <<>> THEN <<>>
    ELSE <<get_rollover_units(id, Head(meters), rollover_units),
           Effect("event", "meter_reset", id, Head(meters)),
           [Effect("event", "meter_credited", id, Head(meters))
                EXCEPT !.units = rollover_units[Head(meters)]]>>
         \o meter_events_always_credited(id, Tail(meters), rollover_units)

\* The reset loop: per meter the read of the units carried over, the reset
\* and, when units are carried over, the credit.
RECURSIVE meter_events(_, _, _)
meter_events(id, meters, rollover_units) ==
    IF meters = <<>> THEN <<>>
    ELSE <<get_rollover_units(id, Head(meters), rollover_units),
           Effect("event", "meter_reset", id, Head(meters))>>
         \o (IF rollover_units[Head(meters)] > 0
             THEN <<[Effect("event", "meter_credited", id, Head(meters))
                        EXCEPT !.units = rollover_units[Head(meters)]]>>
             ELSE <<>>)
         \o meter_events(id, Tail(meters), rollover_units)

create_order_from_stripe_fails(invoice, result, made) ==
    /\ last' = Call("create_order_from_stripe", NoOrder, result,
                    [invoice |-> invoice])
    /\ effects' = made
    /\ UNCHANGED db

\* card_country: the country of the charge's card (None when it has none);
\* pending_items: the items made from the pending billing entries; reloaded:
\* the invoice as the processor returns it after they were added;
\* rollover_units: the units carried over, per meter.
create_order_from_stripe(invoice, card_country, pending_items, reloaded, rollover_units) ==
    LET guard == create_order_from_stripe_guard(invoice)
        subscription == Subscription(invoice.subscription)
        customer == Customer(subscription.customer)
        charged == IF address_from_charge(customer, invoice)
                   THEN <<Effect("stripe", "get_charge", NoOrder, invoice.charge)>>
                   ELSE <<>>
        billing_address == resolve_billing_address(customer, invoice, card_country)
        checkout_id == invoice_checkout_id(invoice)
        pending == IF pulls_pending(invoice) THEN pending_items ELSE <<>>
        items == invoice_items(invoice.lines) \o pending
        current == IF reloads_invoice(invoice, pending_items)
                   THEN reloaded ELSE invoice
        drafted ==
            (IF pulls_pending(invoice)
             THEN <<[Effect("billing_entry", "create_order_items_from_pending",
                            NoOrder, invoice.id)
                        EXCEPT !.returned = Len(pending_items)]>>
             ELSE <<>>)
            \o (IF reloads_invoice(invoice, pending_items)
                THEN <<Effect("stripe", "get_invoice", NoOrder, invoice.id)>>
                ELSE <<>>)
            \o (IF updates_statement_descriptor(invoice, pending_items)
                THEN <<Effect("stripe", "update_invoice", NoOrder, invoice.id)>>
                ELSE <<>>)
        logged == IF current.billing_reason # None
                     /\ current.billing_reason \notin OrderBillingReason
                  THEN <<Effect("log", "error", NoOrder, current.billing_reason)>>
                  ELSE <<>>
        id == Len(orders) + 1
        order == invoice_order(current, items, billing_address,
                               next_invoice_number)
    IN  IF guard # "ok"
        THEN create_order_from_stripe_fails(invoice, guard, <<>>)
        ELSE IF discount_missing(invoice)
        THEN create_order_from_stripe_fails(invoice, "DiscountDoesNotExist", charged)
        ELSE IF checkout_id # None /\ Checkout(checkout_id) = None
        THEN create_order_from_stripe_fails(invoice, "CheckoutDoesNotExist", charged)
        ELSE /\ Len(orders) < MaxOrders
             /\ orders' = Append(orders, order)
             /\ next_invoice_number' = next_invoice_number + 1
             /\ last' = Call("create_order_from_stripe", id, "ok",
                             [invoice |-> invoice])
             /\ effects' = charged \o drafted \o logged
                           \o meter_events(id, subscription.meters, rollover_units)
                           \o _on_order_created(id, order)
             /\ UNCHANGED <<organization_exists, account, payments,
                            payment_transactions, held_balances,
                            balance_transactions>>

(***************************************************************************)
(* Invoice reconciliation engine: update path.                             *)
(***************************************************************************)
\* Variant: the lookup returns an order whatever its invoice.
get_by_stripe_invoice_id_any(stripe_invoice_id) == OrderIds

\* OrderRepository.get_by_stripe_invoice_id: the orders the lookup can return
get_by_stripe_invoice_id(stripe_invoice_id) ==
    {id \in OrderIds : orders[id].stripe_invoice_id = stripe_invoice_id}

\* Variant: the payment intent looked at before the invoice's charge.
balance_charge_id_intent_first(invoice, latest_charge) ==
    IF invoice.payment_intent_id # None THEN latest_charge
    ELSE IF invoice.charge # None THEN invoice.charge
    ELSE None

\* The charge the order.balance job is keyed by; None when none is enqueued.
\* latest_charge is the latest charge of the payment intent the invoice's
\* metadata names.
balance_charge_id(invoice, latest_charge) ==
    IF invoice.charge # None THEN invoice.charge
    ELSE IF invoice.payment_intent_id # None THEN latest_charge
    ELSE None

reads_payment_intent(invoice) ==
    invoice.charge = None /\ invoice.payment_intent_id # None

\* Variant: a paid order stays paid.
updated_status_keeps_paid(order, invoice) ==
    IF paid(order) THEN "paid" ELSE invoice_status(invoice)

\* The status the update writes: the invoice's, whatever the order's was.
updated_status(order, invoice) == invoice_status(invoice)

\* Variant: the settlement is enqueued only when the order becomes paid.
settles_balance_on_paid_edge(order, previous_status) ==
    paid(order) /\ previous_status # "paid"

\* `if order.paid:` the settlement block runs for every event that leaves the
\* order paid, whatever its status was.
settles_balance(order, previous_status) == paid(order)

update_order_from_stripe_fails(invoice, result, made) ==
    /\ last' = Call("update_order_from_stripe", NoOrder, result,
                    [invoice |-> invoice])
    /\ effects' = made
    /\ UNCHANGED db

update_order_from_stripe(invoice, latest_charge) ==
    IF get_by_stripe_invoice_id(invoice.id) = {}
    THEN update_order_from_stripe_fails(invoice, "OrderDoesNotExist", <<>>)
    ELSE \E id \in get_by_stripe_invoice_id(invoice.id) :
        LET previous_status == orders[id].status
            order == [orders[id] EXCEPT
                        !.status = updated_status(orders[id], invoice)]
            intent == IF /\ settles_balance(order, previous_status)
                         /\ reads_payment_intent(invoice)
                      THEN <<[Effect("stripe", "get_payment_intent", id,
                                     invoice.payment_intent_id)
                                EXCEPT !.returned = latest_charge]>>
                      ELSE <<>>
            charge_id == IF settles_balance(order, previous_status)
                         THEN balance_charge_id(invoice, latest_charge)
                         ELSE None
        IN  IF /\ settles_balance(order, previous_status)
               /\ reads_payment_intent(invoice)
               /\ latest_charge = None
            THEN update_order_from_stripe_fails(invoice, "AssertionError", intent)
            ELSE /\ orders' = [orders EXCEPT ![id] = order]
                 /\ last' = [Call("update_order_from_stripe", id, "ok",
                                  [invoice |-> invoice])
                                EXCEPT !.was = previous_status]
                 /\ effects' =
                        intent
                        \o (IF charge_id # None
                            THEN <<Effect("job", "order.balance", id, charge_id)>>
                            ELSE <<>>)
                        \o _on_order_updated(id, order, previous_status)
                 /\ UNCHANGED <<next_invoice_number, organization_exists, account,
                                payments, payment_transactions, held_balances,
                                balance_transactions>>

(***************************************************************************)
(* Refunds.                                                                *)
(***************************************************************************)
\* Order.update_refunds
Order_update_refunds(order, refunded_amount, refunded_tax_amount) ==
    [order EXCEPT !.refunded_amount = refunded_amount,
                  !.refunded_tax_amount = refunded_tax_amount]

update_refunds(id, refunded_amount, refunded_tax_amount) ==
    /\ orders' = [orders EXCEPT ![id] =
                    Order_update_refunds(@, refunded_amount, refunded_tax_amount)]
    /\ last' = Call("update_refunds", id, "ok",
                    [refunded_amount |-> refunded_amount,
                     refunded_tax_amount |-> refunded_tax_amount])
    /\ effects' = <<>>
    /\ UNCHANGED <<next_invoice_number, organization_exists, account, payments,
                   payment_transactions, held_balances, balance_transactions>>

(***************************************************************************)
(* Balance settlement coordinator.                                         *)
(***************************************************************************)
\* The payment transaction of a charge is named by the charge; its amount is
\* the amount captured.
transaction_amount(charge_id) == IF charge_id = "ch_1" THEN 10 ELSE 7

\* Variants: the lookups find nothing.
existing_held_balance_unchecked(charge_id) == FALSE

existing_balance_transaction_unchecked(charge_id) == FALSE

\* held_balance_service.get_by(payment_transaction_id, organization_id)
existing_held_balance(charge_id) ==
    \E i \in DOMAIN held_balances :
        held_balances[i].payment_transaction = charge_id

\* balance_transaction_service.get_by(type=balance, payment_transaction_id,
\* account_id)
existing_balance_transaction(charge_id) ==
    \E i \in DOMAIN balance_transactions :
        balance_transactions[i].payment_transaction = charge_id

\* Variant: the payment transaction is not looked for.
create_order_balance_result_unrecorded(charge_id) ==
    IF ~ account
    THEN (IF existing_held_balance(charge_id)
          THEN "AlreadyBalancedOrder" ELSE "held")
    ELSE IF existing_balance_transaction(charge_id)
         THEN "AlreadyBalancedOrder"
    ELSE "transferred"

create_order_balance_result(charge_id) ==
    IF ~ payment_transactions[charge_id].recorded
    THEN "PaymentTransactionForChargeDoesNotExist"
    ELSE IF ~ account
         THEN (IF existing_held_balance(charge_id)
               THEN "AlreadyBalancedOrder" ELSE "held")
    ELSE IF existing_balance_transaction(charge_id)
         THEN "AlreadyBalancedOrder"
    ELSE "transferred"

create_order_balance(id, charge_id) ==
    LET result == create_order_balance_result(charge_id)
        transfer_amount == transaction_amount(charge_id)
        row == [amount |-> transfer_amount, order |-> id,
                payment_transaction |-> charge_id]
    IN  /\ last' = Call("create_order_balance", id,
                        IF result \in {"held", "transferred"} THEN "ok" ELSE result,
                        [charge_id |-> charge_id, account |-> account])
        /\ IF result = "held"
           THEN /\ payment_transactions' =
                        [payment_transactions EXCEPT ![charge_id].order = id]
                /\ held_balances' = Append(held_balances, row)
                /\ effects' = <<Effect("notification", "maintainer_create_account",
                                       id, None)>>
                /\ UNCHANGED <<orders, next_invoice_number, organization_exists,
                               account, payments, balance_transactions>>
           ELSE IF result = "transferred"
           THEN /\ payment_transactions' =
                        [payment_transactions EXCEPT ![charge_id].order = id]
                /\ balance_transactions' = Append(balance_transactions, row)
                /\ effects' = <<Effect("ledger", "create_balance_from_charge", id,
                                       charge_id),
                                Effect("ledger", "create_fees_reversal_balances",
                                       id, charge_id)>>
                /\ UNCHANGED <<orders, next_invoice_number, organization_exists,
                               account, payments, held_balances>>
           ELSE /\ effects' = <<>>
                /\ UNCHANGED db

\* create_order_balance as it runs beside other invocations, each in its own
\* transaction: the reads and the existence lookup are one step, the creation
\* and the commit a later one.  An invocation whose lookup found nothing is in
\* flight, with the account it read, until it writes.
create_order_balance_lookup(session, id, charge_id) ==
    LET result == create_order_balance_result(charge_id)
        passed == result \in {"held", "transferred"}
    IN  /\ \A s \in in_flight : s.session # session
        /\ last' = Call("create_order_balance_lookup", id,
                        IF passed THEN "ok" ELSE result,
                        [charge_id |-> charge_id, account |-> account])
        /\ in_flight' = IF passed
                        THEN in_flight \cup {[session |-> session, order |-> id,
                                              charge_id |-> charge_id,
                                              account |-> account]}
                        ELSE in_flight
        /\ effects' = <<>>
        /\ UNCHANGED db

create_order_balance_write(s) ==
    LET row == [amount |-> transaction_amount(s.charge_id), order |-> s.order,
                payment_transaction |-> s.charge_id]
    IN  /\ in_flight' = in_flight \ {s}
        /\ payment_transactions' =
                [payment_transactions EXCEPT ![s.charge_id].order = s.order]
        /\ last' = Call("create_order_balance_write", s.order, "ok",
                        [charge_id |-> s.charge_id, account |-> s.account])
        /\ IF ~ s.account
           THEN /\ held_balances' = Append(held_balances, row)
                /\ effects' = <<Effect("notification", "maintainer_create_account",
                                       s.order, None)>>
                /\ UNCHANGED balance_transactions
           ELSE /\ balance_transactions' = Append(balance_transactions, row)
                /\ effects' = <<Effect("ledger", "create_balance_from_charge",
                                       s.order, s.charge_id),
                                Effect("ledger", "create_fees_reversal_balances",
                                       s.order, s.charge_id)>>
                /\ UNCHANGED held_balances
        /\ UNCHANGED <<orders, next_invoice_number, organization_exists, account,
                       payments>>

(***************************************************************************)
(* The collaborators that own the rest of the state.                       *)
(***************************************************************************)
\* The payment-capture path records the payment transaction of a charge.
record_payment_transaction(charge_id) ==
    /\ ~ payment_transactions[charge_id].recorded
    /\ payment_transactions' =
            [payment_transactions EXCEPT ![charge_id].recorded = TRUE]
    /\ last' = Call("record_payment_transaction", NoOrder, "ok",
                    [charge_id |-> charge_id])
    /\ effects' = <<>>
    /\ UNCHANGED <<orders, next_invoice_number, organization_exists, account,
                   payments, held_balances, balance_transactions>>

\* The organization sets up its payout account.
create_account ==
    /\ ~ account
    /\ account' = TRUE
    /\ last' = Call("create_account", NoOrder, "ok", [none |-> None])
    /\ effects' = <<>>
    /\ UNCHANGED <<orders, next_invoice_number, organization_exists, payments,
                   payment_transactions, held_balances, balance_transactions>>

(***************************************************************************)
(* Inputs.                                                                 *)
(***************************************************************************)
Charges == {"ch_1", "ch_2"}

InvoiceIds == {"in_1", "in_2"}

custom_price == [id |-> "pp_1", amount_type |-> "custom", price_amount |-> 0]

fixed_price == [id |-> "pp_2", amount_type |-> "fixed", price_amount |-> 10]

BaseCheckout ==
    [id |-> "ck_1", is_recurring |-> FALSE, customer |-> "cus_1",
     prices |-> <<custom_price>>, amount |-> 10, discount_amount |-> 0,
     discount |-> None, tax_amount |-> <<>>, tax_processor_id |-> None]

\* Checkouts of every kind the converter tells apart.
CheckoutInputs ==
    {[BaseCheckout EXCEPT !.id = id, !.is_recurring = is_recurring,
                          !.customer = customer] :
        id \in {"ck_1", "ck_2"}, is_recurring \in BOOLEAN,
        customer \in {None, "cus_1"}}

PaymentInputs ==
    {NoPayment} \cup {[processor_id |-> "ch_1", amount |-> amount] :
                        amount \in {10, 7}}

NoCalculation == [tax_amount_exclusive |-> 0, tax_breakdown |-> <<>>]

BaseInvoice ==
    [id |-> "in_1", metadata_type |-> None, subscription |-> "sub_stripe_1",
     status |-> "open", charge |-> None, customer_address |-> None,
     discount |-> None, metadata_checkout_id |-> None,
     subscription_checkout_id |-> None, lines |-> <<>>,
     billing_reason |-> "subscription_cycle", total_discount_amounts |-> <<>>,
     tax |-> 0, total_tax_amounts |-> <<>>, subtotal |-> 10,
     payment_intent_id |-> None]

InvoiceStatuses == {"draft", "open", "paid"}

\* Invoice events for the creation path.
InvoiceInputs ==
    {[BaseInvoice EXCEPT !.id = id, !.status = status,
                         !.subscription = subscription,
                         !.metadata_type = metadata_type] :
        id \in InvoiceIds, status \in {"open", "paid"},
        subscription \in {None, "sub_stripe_1", "sub_stripe_x"},
        metadata_type \in {None, "pledge"}}

\* Invoice events for the update path.
InvoiceUpdates ==
    {[BaseInvoice EXCEPT !.id = id, !.status = status, !.charge = charge] :
        id \in InvoiceIds, status \in {"open", "paid"},
        charge \in {None, "ch_1"}}

NoRollover == [meter \in {"meter_1", "meter_2"} |-> 0]

\* Updates: the fields set, and their values (None for a field not set).
OrderUpdatesOf(names, addresses) ==
    {[model_fields_set |-> fields,
      billing_name |-> IF "billing_name" \in fields THEN name ELSE None,
      billing_address |-> IF "billing_address" \in fields THEN address ELSE None] :
        fields \in SUBSET invoice_locked_fields,
        name \in names, address \in addresses}

OrderUpdates == OrderUpdatesOf({None, "Ann", "Bob"}, {None, "FR", "US"})

RefundAmounts == {0, 5}

(***************************************************************************)
(* The service as a whole.                                                 *)
(***************************************************************************)
Init ==
    /\ orders = <<>>
    /\ next_invoice_number = 1
    /\ organization_exists \in BOOLEAN
    /\ account = FALSE
    /\ payments = [charge_id \in Charges |-> NoOrder]
    /\ payment_transactions =
            [charge_id \in Charges |-> [recorded |-> FALSE, order |-> NoOrder]]
    /\ held_balances = <<>>
    /\ balance_transactions = <<>>
    /\ last = [op |-> "init", order |-> NoOrder, result |-> "ok",
               input |-> [none |-> None], was |-> None, repeated |-> FALSE]
    /\ effects = <<>>
    /\ queue = EmptyBag
    /\ in_flight = {}

Next ==
    \/ \E checkout \in CheckoutInputs, payment \in PaymentInputs :
            create_from_checkout(checkout, payment, NoCalculation) /\ UNCHANGED background
    \/ \E invoice \in InvoiceInputs :
            create_order_from_stripe(invoice, None, <<>>, invoice, NoRollover) /\ UNCHANGED background
    \/ \E invoice \in InvoiceUpdates :
            update_order_from_stripe(invoice, None) /\ UNCHANGED background
    \/ \E id \in OrderIds, order_update \in OrderUpdates :
            update(id, order_update) /\ UNCHANGED background
    \/ \E id \in OrderIds : trigger_invoice_generation(id) /\ UNCHANGED background
    \/ \E id \in OrderIds : generate_invoice(id) /\ UNCHANGED background
    \/ \E id \in OrderIds : get_order_invoice(id) /\ UNCHANGED background
    \/ \E id \in OrderIds, refunded_amount \in RefundAmounts :
            update_refunds(id, refunded_amount, 0) /\ UNCHANGED background
    \/ \E id \in OrderIds, charge_id \in Charges :
            create_order_balance(id, charge_id) /\ UNCHANGED background
    \/ \E charge_id \in Charges : record_payment_transaction(charge_id) /\ UNCHANGED background
    \/ create_account /\ UNCHANGED background

Spec == Init /\ [][Next]_vars

(***************************************************************************)
(* The two creation paths alone.                                           *)
(***************************************************************************)
NextCreate ==
    \/ \E checkout \in CheckoutInputs, payment \in PaymentInputs :
            create_from_checkout(checkout, payment, NoCalculation) /\ UNCHANGED background
    \/ \E invoice \in InvoiceInputs :
            create_order_from_stripe(invoice, None, <<>>, invoice, NoRollover) /\ UNCHANGED background

SpecCreate == Init /\ [][NextCreate]_vars

(***************************************************************************)
(* The invoice events of subscriptions: creation, then updates.            *)
(***************************************************************************)
ReconcileCreations ==
    {[BaseInvoice EXCEPT !.id = id, !.status = status,
                         !.billing_reason = billing_reason] :
        id \in InvoiceIds, status \in {"open", "paid"},
        billing_reason \in {"subscription_cycle", "subscription_create"}}

ReconcileUpdates ==
    {[BaseInvoice EXCEPT !.id = id, !.status = status, !.charge = charge,
                         !.payment_intent_id = payment_intent_id] :
        id \in InvoiceIds, status \in {"open", "paid"},
        charge \in {None, "ch_1"}, payment_intent_id \in {None, "pi_1"}}

NextReconcile ==
    \/ \E invoice \in ReconcileCreations :
            create_order_from_stripe(invoice, None, <<>>, invoice, NoRollover) /\ UNCHANGED background
    \/ \E invoice \in ReconcileUpdates, latest_charge \in {None, "ch_2"} :
            update_order_from_stripe(invoice, latest_charge) /\ UNCHANGED background

SpecReconcile == Init /\ [][NextReconcile]_vars

(***************************************************************************)
(* Settlement of charges on orders.                                        *)
(***************************************************************************)
NextBalance ==
    \/ create_from_checkout(BaseCheckout, NoPayment, NoCalculation) /\ UNCHANGED background
    \/ \E id \in OrderIds, charge_id \in Charges :
            create_order_balance(id, charge_id) /\ UNCHANGED background
    \/ \E charge_id \in Charges : record_payment_transaction(charge_id) /\ UNCHANGED background
    \/ create_account /\ UNCHANGED background

SpecBalance == Init /\ [][NextBalance]_vars

(***************************************************************************)
(* An order and its invoice document.                                      *)
(***************************************************************************)
MaxDocumentOrders == 1

DocumentCheckouts ==
    {[BaseCheckout EXCEPT !.customer = customer] : customer \in {"cus_1", "cus_2"}}

DocumentInvoices ==
    {[BaseInvoice EXCEPT !.status = status] : status \in {"open", "paid"}}

DocumentUpdates == OrderUpdatesOf({None, "Ann", "Bob"}, {None, "FR"})

NextDocument ==
    \/ \E checkout \in DocumentCheckouts :
            /\ Len(orders) < MaxDocumentOrders
            /\ create_from_checkout(checkout, NoPayment, NoCalculation) /\ UNCHANGED background
    \/ \E invoice \in DocumentInvoices :
            /\ Len(orders) < MaxDocumentOrders
            /\ create_order_from_stripe(invoice, None, <<>>, invoice, NoRollover) /\ UNCHANGED background
    \/ \E invoice \in DocumentInvoices :
            update_order_from_stripe(invoice, None) /\ UNCHANGED background
    \/ \E id \in OrderIds, order_update \in DocumentUpdates :
            update(id, order_update) /\ UNCHANGED background
    \/ \E id \in OrderIds : trigger_invoice_generation(id) /\ UNCHANGED background
    \/ \E id \in OrderIds : generate_invoice(id) /\ UNCHANGED background
    \/ \E id \in OrderIds : get_order_invoice(id) /\ UNCHANGED background

SpecDocument == Init /\ [][NextDocument]_vars

(***************************************************************************)
(* Every operation that writes an order or runs on one, on orders whose    *)
(* document may have been generated.                                       *)
(***************************************************************************)
MaxLockedOrders == 1

LockUpdates == OrderUpdatesOf({"Ann", "Bob"}, {"FR", "US"})

NextLock ==
    \/ \E invoice \in DocumentInvoices :
            /\ Len(orders) < MaxLockedOrders
            /\ create_order_from_stripe(invoice, None, <<>>, invoice, NoRollover) /\ UNCHANGED background
    \/ \E invoice \in DocumentInvoices :
            update_order_from_stripe(invoice, None) /\ UNCHANGED background
    \/ \E id \in OrderIds, order_update \in LockUpdates :
            update(id, order_update) /\ UNCHANGED background
    \/ \E id \in OrderIds : trigger_invoice_generation(id) /\ UNCHANGED background
    \/ \E id \in OrderIds : generate_invoice(id) /\ UNCHANGED background
    \/ \E id \in OrderIds : update_refunds(id, 5, 0) /\ UNCHANGED background
    \/ \E id \in OrderIds : create_order_balance(id, "ch_1") /\ UNCHANGED background
    \/ record_payment_transaction("ch_1") /\ UNCHANGED background

SpecLock == Init /\ [][NextLock]_vars

(***************************************************************************)
(* Properties of the creation paths.                                       *)
(***************************************************************************)
\* What a step leaves alone when it creates nothing and emits nothing.
NothingCreated ==
    /\ orders' = orders
    /\ next_invoice_number' = next_invoice_number
    /\ payments' = payments
    /\ effects' = <<>>

\* C4: no two orders are converted from the same checkout, and no two orders
\* carry the same external invoice id.
C4_OneOrderPerCheckoutAndInvoice ==
    \A i, j \in OrderIds :
        i # j =>
            /\ ~ (/\ orders[i].billing_reason = "purchase"
                  /\ orders[j].billing_reason = "purchase"
                  /\ orders[i].checkout = orders[j].checkout)
            /\ ~ (/\ orders[i].stripe_invoice_id # None
                  /\ orders[i].stripe_invoice_id = orders[j].stripe_invoice_id)

\* C9: create_from_checkout on a checkout whose product is recurring raises
\* RecurringProduct, whether or not the checkout has a customer, and creates
\* no order, allocates no invoice number and emits nothing.
C9_RecurringProductRejected ==
    [][(/\ last'.op = "create_from_checkout"
        /\ last'.input.checkout.is_recurring)
       => (/\ last'.result = "RecurringProduct"
           /\ last'.order = NoOrder
           /\ NothingCreated)]_vars

C9_Witness ==
    /\ last.op = "create_from_checkout"
    /\ last.input.checkout.is_recurring
    /\ last.input.checkout.customer = None
    /\ last.result = "RecurringProduct"
    /\ Len(orders) = 1
    /\ next_invoice_number = 2

\* C10: create_from_checkout on a checkout of a non-recurring product with no
\* customer raises MissingCheckoutCustomer, and creates no order, allocates no
\* invoice number and emits nothing.
C10_MissingCustomerRejected ==
    [][(/\ last'.op = "create_from_checkout"
        /\ ~ last'.input.checkout.is_recurring
        /\ last'.input.checkout.customer = None)
       => (/\ last'.result = "MissingCheckoutCustomer"
           /\ last'.order = NoOrder
           /\ NothingCreated)]_vars

C10_Witness ==
    /\ last.op = "create_from_checkout"
    /\ ~ last.input.checkout.is_recurring
    /\ last.input.checkout.customer = None
    /\ last.input.payment # NoPayment
    /\ last.result = "MissingCheckoutCustomer"
    /\ Len(orders) = 1
    /\ next_invoice_number = 2

(***************************************************************************)
(* Properties of the update path.                                          *)
(***************************************************************************)
\* The number of webhooks of one type among the effects, and the number the
\* sender lets out for one call of send_webhook.
Webhooks(event_type) == Count(effects, "webhook", event_type)

Sent == IF organization_exists THEN 1 ELSE 0

GrantCycles == Count(effects, "job", "benefit.enqueue_benefit_grant_cycles")

IsCycleOrder(order) ==
    order.subscription # None /\ order.billing_reason = "subscription_cycle"

PaidUpdate ==
    /\ last.op = "update_order_from_stripe"
    /\ last.result = "ok"
    /\ last.input.invoice.status = "paid"

\* C1: a paid invoice update sends order_updated once; applied to an order that
\* was not paid it sends order_paid once and, for a subscription_cycle order,
\* enqueues benefit.enqueue_benefit_grant_cycles once; applied a second time it
\* finds the order paid and sends order_updated alone: no order_paid, no
\* grant-cycle job.
C1_PaidUpdateTwiceFiresOnce ==
    PaidUpdate =>
        /\ Webhooks("order_updated") = Sent
        /\ Webhooks("order_created") = 0
        /\ last.was # "paid" =>
                /\ Webhooks("order_paid") = Sent
                /\ GrantCycles = IF IsCycleOrder(orders[last.order]) THEN 1 ELSE 0
        /\ last.repeated =>
                /\ last.was = "paid"
                /\ Webhooks("order_paid") = 0
                /\ GrantCycles = 0

C1_Witness ==
    /\ PaidUpdate
    /\ last.repeated
    /\ organization_exists
    /\ IsCycleOrder(orders[last.order])
    /\ Webhooks("order_updated") = 1

(***************************************************************************)
(* Properties of the settlement.                                           *)
(***************************************************************************)
HeldBalances(charge_id) ==
    Cardinality({i \in DOMAIN held_balances :
                    held_balances[i].payment_transaction = charge_id})

BalanceTransfers(charge_id) ==
    Cardinality({i \in DOMAIN balance_transactions :
                    balance_transactions[i].payment_transaction = charge_id})

Settlement ==
    /\ last.op = "create_order_balance"
    /\ payment_transactions[last.input.charge_id].recorded

\* C2: with no payout account, create_order_balance on a recorded charge holds
\* the balance when it succeeds, and called again for the same order and charge
\* it raises AlreadyBalancedOrder; there is one HeldBalance for the payment
\* transaction, never two.
C2_HeldBalanceOnce ==
    /\ \A charge_id \in Charges : HeldBalances(charge_id) <= 1
    /\ (Settlement /\ ~ last.input.account) =>
            /\ HeldBalances(last.input.charge_id) = 1
            /\ last.result \in {"ok", "AlreadyBalancedOrder"}
            /\ last.result = "ok" =>
                    /\ held_balances[Len(held_balances)] =
                            [amount |-> transaction_amount(last.input.charge_id),
                             order |-> last.order,
                             payment_transaction |-> last.input.charge_id]
                    /\ Count(effects, "notification",
                             "maintainer_create_account") = 1
            /\ last.repeated =>
                    /\ last.result = "AlreadyBalancedOrder"
                    /\ effects = <<>>

C2_Witness ==
    /\ Settlement
    /\ ~ last.input.account
    /\ last.repeated
    /\ last.result = "AlreadyBalancedOrder"
    /\ HeldBalances(last.input.charge_id) = 1
    /\ held_balances[1].order = last.order

\* C3: with a payout account, there is at most one balance transfer per payment
\* transaction: the call that finds none creates it and then reverses the
\* fees, and a call that finds one raises AlreadyBalancedOrder and creates
\* nothing.
C3_BalanceTransferOnce ==
    /\ \A charge_id \in Charges : BalanceTransfers(charge_id) <= 1
    /\ (Settlement /\ last.input.account) =>
            /\ BalanceTransfers(last.input.charge_id) = 1
            /\ last.result \in {"ok", "AlreadyBalancedOrder"}
            /\ last.result = "ok" =>
                    effects =
                        <<Effect("ledger", "create_balance_from_charge",
                                 last.order, last.input.charge_id),
                          Effect("ledger", "create_fees_reversal_balances",
                                 last.order, last.input.charge_id)>>
            /\ last.result = "AlreadyBalancedOrder" => effects = <<>>
            /\ last.repeated => last.result = "AlreadyBalancedOrder"

C3_Witness ==
    /\ Settlement
    /\ last.input.account
    /\ last.repeated
    /\ last.result = "AlreadyBalancedOrder"
    /\ BalanceTransfers(last.input.charge_id) = 1
    /\ HeldBalances(last.input.charge_id) = 0

(***************************************************************************)
(* Properties of the update and of the invoice document.                   *)
(***************************************************************************)
\* C5: an order whose invoice_path is set keeps its billing_name and its
\* billing_address in every step.
C5_LockedBillingNeverChanges ==
    [][\A id \in OrderIds :
            orders[id].invoice_path # None =>
                /\ orders'[id].billing_name = orders[id].billing_name
                /\ orders'[id].billing_address = orders[id].billing_address]_vars

C5_Witness ==
    /\ last.op = "update"
    /\ last.result = "PolarRequestValidationError"
    /\ last.input.loc = {"billing_name", "billing_address"}
    /\ orders[last.order].invoice_path # None
    /\ orders[last.order].refunded_amount = 5

\* C6: an update that sets billing_name to another name than the order's is
\* applied when the order has no invoice_path (the name is stored and
\* order_updated goes to the webhook sender), and is rejected when it has one,
\* with a validation error located at billing_name, nothing stored and nothing
\* sent.
C6_NameChangeThenLocked ==
    [][(/\ last'.op = "update"
        /\ "billing_name" \in last'.input.order_update.model_fields_set
        /\ last'.input.order_update.billing_name
                # orders[last'.order].billing_name)
       => IF orders[last'.order].invoice_path = None
          THEN /\ last'.result = "ok"
               /\ orders'[last'.order].billing_name
                        = last'.input.order_update.billing_name
               /\ effects' = IF organization_exists
                             THEN <<Effect("webhook", "order_updated",
                                           last'.order, None)>>
                             ELSE <<>>
          ELSE /\ last'.result = "PolarRequestValidationError"
               /\ "billing_name" \in last'.input.loc
               /\ orders' = orders
               /\ effects' = <<>>]_vars

C6_Witness ==
    /\ last.op = "update"
    /\ last.result = "PolarRequestValidationError"
    /\ "billing_name" \in last.input.loc
    /\ last.input.order_update.billing_name = "Ann"
    /\ orders[last.order].customer = "cus_1"
    /\ orders[last.order].billing_name = "Bob"
    /\ organization_exists

\* C7: trigger_invoice_generation raises InvoiceAlreadyExists when the order
\* has a document, else NotPaidOrder when it is not paid, else
\* MissingInvoiceBillingDetails when it lacks a billing name or address; it
\* enqueues order.invoice, once, exactly when none of the three holds, and
\* nothing otherwise.
C7_TriggerInvoiceGeneration ==
    last.op = "trigger_invoice_generation" =>
        LET order == orders[last.order]
            ready == /\ order.invoice_path = None
                     /\ order.status = "paid"
                     /\ order.billing_name # None
                     /\ order.billing_address # None
        IN  /\ last.result = "ok" <=> ready
            /\ ready => effects = <<Effect("job", "order.invoice", last.order, None)>>
            /\ ~ ready => effects = <<>>
            /\ order.invoice_path # None => last.result = "InvoiceAlreadyExists"
            /\ (order.invoice_path = None /\ order.status # "paid")
                    => last.result = "NotPaidOrder"
            /\ (/\ order.invoice_path = None
                /\ order.status = "paid"
                /\ (order.billing_name = None \/ order.billing_address = None))
                    => last.result = "MissingInvoiceBillingDetails"

C7_Witness ==
    /\ last.op = "trigger_invoice_generation"
    /\ last.result = "InvoiceAlreadyExists"
    /\ orders[last.order].status = "pending"
    /\ orders[last.order].billing_name = None

\* C8: get_order_invoice raises InvoiceDoesNotExist exactly when the order has
\* no invoice_path and otherwise asks the document store for the URL of that
\* path; an order is created without invoice_path, and no step but
\* generate_invoice on that order sets it.
C8_InvoiceOnlyAfterGeneration ==
    /\ [](last.op = "get_order_invoice" =>
            /\ last.result = "InvoiceDoesNotExist"
                    <=> orders[last.order].invoice_path = None
            /\ last.result = "ok"
                    <=> effects = <<Effect("invoice_service",
                                           "get_order_invoice_url", last.order,
                                           orders[last.order].invoice_path)>>
            /\ last.result \in {"ok", "InvoiceDoesNotExist"})
    /\ [][\A id \in 1..Len(orders') :
            (/\ orders'[id].invoice_path # None
             /\ (id \in OrderIds => orders[id].invoice_path = None))
            => (last'.op = "generate_invoice" /\ last'.order = id)]_vars

C8_Witness ==
    /\ last.op = "get_order_invoice"
    /\ last.result = "ok"
    /\ orders[last.order].invoice_path # None

(***************************************************************************)
(* The checkout-to-order converter alone, on checkouts of every shape:     *)
(* prices, discount, tax, tax calculation and captured payment.            *)
(***************************************************************************)
MaxCheckoutOrders == 1

CheckoutPrices == {<<custom_price>>, <<fixed_price>>, <<custom_price, fixed_price>>}

\* Checkouts: of each list of prices; with and without a discount and a tax
\* amount; with a tax calculation at the processor; and the two rejected kinds.
ConverterCheckouts ==
    {[BaseCheckout EXCEPT !.prices = prices] : prices \in CheckoutPrices}
    \cup {[BaseCheckout EXCEPT !.prices = <<custom_price, fixed_price>>,
                               !.discount_amount = discount_amount,
                               !.tax_amount = tax_amount] :
            discount_amount \in {0, 2}, tax_amount \in {<<>>, <<3>>}}
    \cup {[BaseCheckout EXCEPT !.tax_processor_id = "taxcalc_1",
                               !.tax_amount = tax_amount] :
            tax_amount \in {<<>>, <<3>>}}
    \cup {[BaseCheckout EXCEPT !.is_recurring = TRUE],
          [BaseCheckout EXCEPT !.customer = None]}

ConverterPayments ==
    {NoPayment} \cup {[processor_id |-> "ch_1", amount |-> amount] :
                        amount \in {10, 8}}

tax_breakdown_1 == [taxability_reason |-> "standard_rated", tax_rate |-> "rate_1"]

tax_breakdown_2 == [taxability_reason |-> "reverse_charge", tax_rate |-> "rate_2"]

\* Tax calculations: of the checkout's tax or not, with no, one or two
\* breakdowns.
Calculations ==
    {[tax_amount_exclusive |-> 3, tax_breakdown |-> tax_breakdown] :
        tax_breakdown \in {<<>>, <<tax_breakdown_1>>,
                           <<tax_breakdown_1, tax_breakdown_2>>}}
    \cup {[tax_amount_exclusive |-> 0, tax_breakdown |-> <<tax_breakdown_1>>]}

NextCheckout ==
    \E checkout \in ConverterCheckouts, payment \in ConverterPayments,
       calculation \in Calculations :
        /\ create_from_checkout(checkout, payment, calculation)
        /\ Len(orders') <= MaxCheckoutOrders /\ UNCHANGED background

SpecCheckout == Init /\ [][NextCheckout]_vars

(***************************************************************************)
(* Properties of the checkout-to-order converter.                          *)
(***************************************************************************)
\* The total a checkout comes to: amount less discount plus tax.
CheckoutTax(checkout) ==
    IF checkout.tax_amount = <<>> THEN 0 ELSE checkout.tax_amount[1]

CheckoutTotal(checkout) ==
    checkout.amount - checkout.discount_amount + CheckoutTax(checkout)

BalanceJobs(made) ==
    SelectSeq(made, LAMBDA e : e.kind = "job" /\ e.name = "order.balance")

\* C11: create_from_checkout with a captured payment whose amount differs from
\* the total of the order made from the checkout fails with an assertion
\* error; the payment is not linked to an order and no order.balance job is
\* enqueued.
C11_PaymentAmountMismatch ==
    [][(/\ last'.op = "create_from_checkout"
        /\ ~ last'.input.checkout.is_recurring
        /\ last'.input.checkout.customer # None
        /\ last'.input.payment # NoPayment
        /\ last'.input.payment.amount # CheckoutTotal(last'.input.checkout))
       => (/\ last'.result = "AssertionError"
           /\ payments' = payments
           /\ BalanceJobs(effects') = <<>>)]_vars

C11_Witness ==
    /\ last.op = "create_from_checkout"
    /\ last.input.checkout.tax_processor_id = None
    /\ last.input.checkout.discount_amount = 2
    /\ last.input.payment # NoPayment
    /\ last.input.payment.amount = 10
    /\ last.result = "AssertionError"
    /\ payments["ch_1"] = NoOrder

\* C12: a checkout on a non-recurring product, with a customer and no tax
\* processor id, is converted (unless the captured payment fails the amount
\* assertion) into an order that is paid, of billing reason purchase, with no
\* subscription, whose subtotal, discount and tax are the checkout's amount,
\* discount amount and tax amount (0 when absent), and that has one item per
\* product price, in order, a custom-price item carrying the checkout's amount.
C12_CheckoutOrderFields ==
    (/\ last.op = "create_from_checkout"
     /\ ~ last.input.checkout.is_recurring
     /\ last.input.checkout.customer # None
     /\ last.input.checkout.tax_processor_id = None)
    => LET checkout == last.input.checkout
           payment == last.input.payment
       IN  /\ (payment = NoPayment \/ payment.amount = CheckoutTotal(checkout))
                => last.result = "ok"
           /\ last.result = "ok" =>
                LET order == orders[last.order]
                IN  /\ order.status = "paid"
                    /\ order.billing_reason = "purchase"
                    /\ order.subscription = None
                    /\ order.subtotal_amount = checkout.amount
                    /\ order.discount_amount = checkout.discount_amount
                    /\ order.tax_amount = CheckoutTax(checkout)
                    /\ Len(order.items) = Len(checkout.prices)
                    /\ \A i \in 1..Len(checkout.prices) :
                        /\ order.items[i].product_price = checkout.prices[i].id
                        /\ checkout.prices[i].amount_type = "custom"
                            => order.items[i].amount = checkout.amount

C12_Witness ==
    /\ last.op = "create_from_checkout"
    /\ last.result = "ok"
    /\ last.input.checkout.tax_processor_id = None
    /\ last.input.checkout.prices = <<custom_price, fixed_price>>
    /\ last.input.checkout.tax_amount = <<>>
    /\ last.input.checkout.discount_amount = 2
    /\ orders[last.order].tax_amount = 0
    /\ orders[last.order].items[1].amount = 10

\* C20: a successful create_from_checkout with a payment links the payment to
\* the new order and enqueues one order.balance job, for that order and keyed
\* by the payment's processor id; with no payment it links nothing and
\* enqueues no order.balance job.
C20_PaymentLinkedAndBalanced ==
    [][(/\ last'.op = "create_from_checkout"
        /\ last'.result = "ok")
       => IF last'.input.payment # NoPayment
          THEN /\ payments' = [payments EXCEPT
                                ![last'.input.payment.processor_id] = last'.order]
               /\ Len(BalanceJobs(effects')) = 1
               /\ BalanceJobs(effects')[1].order = last'.order
               /\ BalanceJobs(effects')[1].arg = last'.input.payment.processor_id
          ELSE /\ payments' = payments
               /\ BalanceJobs(effects') = <<>>]_vars

C20_Witness ==
    /\ last.op = "create_from_checkout"
    /\ last.result = "ok"
    /\ last.input.payment # NoPayment
    /\ last.order # NoOrder
    /\ payments[last.input.payment.processor_id] = last.order
    /\ Len(BalanceJobs(effects)) = 1

(***************************************************************************)
(* Properties of the invoice update.                                       *)
(***************************************************************************)
PaymentIntentReads(made) ==
    SelectSeq(made, LAMBDA e : e.kind = "stripe" /\ e.name = "get_payment_intent")

\* C13: an update for a paid invoice enqueues one order.balance job, keyed by
\* the invoice's charge when it has one, else by the latest charge of the
\* payment intent its metadata names when it names one; an update for an
\* invoice that is not paid, or that has neither, enqueues none.
C13_BalanceJobOfPaidInvoice ==
    last.op = "update_order_from_stripe"
    => LET invoice == last.input.invoice
           jobs == BalanceJobs(effects)
           reads == PaymentIntentReads(effects)
       IN  /\ (invoice.status = "paid" /\ invoice.charge # None)
                => /\ last.result \in {"ok", "OrderDoesNotExist"}
                   /\ last.result = "ok"
                        => /\ Len(jobs) = 1
                           /\ jobs[1].order = last.order
                           /\ jobs[1].arg = invoice.charge
                           /\ reads = <<>>
           /\ (/\ last.result = "ok"
               /\ invoice.status = "paid"
               /\ invoice.charge = None
               /\ invoice.payment_intent_id # None)
                => /\ Len(reads) = 1
                   /\ reads[1].arg = invoice.payment_intent_id
                   /\ Len(jobs) = 1
                   /\ jobs[1].order = last.order
                   /\ jobs[1].arg = reads[1].returned
                   /\ jobs[1].arg # None
           /\ (\/ invoice.status # "paid"
               \/ invoice.charge = None /\ invoice.payment_intent_id = None
               \/ last.result # "ok")
                => jobs = <<>>

C13_Witness ==
    /\ last.op = "update_order_from_stripe"
    /\ last.result = "ok"
    /\ last.was = "pending"
    /\ last.input.invoice.status = "paid"
    /\ last.input.invoice.charge = None
    /\ last.input.invoice.payment_intent_id = "pi_1"
    /\ Len(BalanceJobs(effects)) = 1
    /\ BalanceJobs(effects)[1].arg = "ch_2"

\* C16: an update for an invoice id that no order carries raises
\* OrderDoesNotExist, writes nothing and emits nothing; no update ever adds
\* an order.
C16_UpdateOfUnknownInvoice ==
    [][last'.op = "update_order_from_stripe"
       => /\ Len(orders') = Len(orders)
          /\ (\A id \in OrderIds :
                orders[id].stripe_invoice_id # last'.input.invoice.id)
                => /\ last'.result = "OrderDoesNotExist"
                   /\ last'.order = NoOrder
                   /\ effects' = <<>>
                   /\ UNCHANGED db]_vars

C16_Witness ==
    /\ last.op = "update_order_from_stripe"
    /\ last.result = "OrderDoesNotExist"
    /\ last.input.invoice.id = "in_2"
    /\ last.input.invoice.status = "paid"
    /\ last.input.invoice.charge = "ch_1"
    /\ Len(orders) = 1
    /\ orders[1].stripe_invoice_id = "in_1"
    /\ orders[1].status = "pending"

\* C17: after an update the order is paid when the invoice of the event is
\* paid and pending when it is not, whatever the order was before: an event
\* that is not paid takes a paid order back to pending.
C17_StatusFollowsInvoice ==
    (last.op = "update_order_from_stripe" /\ last.result = "ok")
    => /\ orders[last.order].status =
            (IF last.input.invoice.status = "paid" THEN "paid" ELSE "pending")
       /\ orders[last.order].stripe_invoice_id = last.input.invoice.id

C17_Witness ==
    /\ last.op = "update_order_from_stripe"
    /\ last.result = "ok"
    /\ last.was = "paid"
    /\ last.input.invoice.status = "open"
    /\ orders[last.order].status = "pending"

(***************************************************************************)
(* Properties of the creation from an invoice.                             *)
(***************************************************************************)
\* C15: create_order_from_stripe raises NotAnOrderInvoice for an invoice of
\* type pledge, else NotASubscriptionInvoice for an invoice with no
\* subscription, else SubscriptionDoesNotExist for one whose subscription
\* matches no local subscription; each time it creates no order, allocates no
\* invoice number and emits nothing (no meter event, webhook or job).
C15_InvoiceRejections ==
    [][last'.op = "create_order_from_stripe"
       => LET invoice == last'.input.invoice
              rejected(error) == /\ last'.result = error
                                 /\ last'.order = NoOrder
                                 /\ NothingCreated
          IN  /\ invoice.metadata_type = "pledge"
                    => rejected("NotAnOrderInvoice")
              /\ (invoice.metadata_type # "pledge" /\ invoice.subscription = None)
                    => rejected("NotASubscriptionInvoice")
              /\ (/\ invoice.metadata_type # "pledge"
                  /\ invoice.subscription # None
                  /\ Subscription(invoice.subscription).id = None)
                    => rejected("SubscriptionDoesNotExist")]_vars

C15_Witness ==
    /\ last.op = "create_order_from_stripe"
    /\ last.input.invoice.metadata_type = "pledge"
    /\ last.input.invoice.subscription = None
    /\ last.result = "NotAnOrderInvoice"
    /\ Len(orders) = 1
    /\ next_invoice_number = 2

(***************************************************************************)
(* Invoices of subscriptions with and without usage meters, and the units  *)
(* each meter carries over.                                                *)
(***************************************************************************)
MeterInvoices ==
    {[BaseInvoice EXCEPT !.id = id, !.status = status,
                         !.subscription = subscription] :
        id \in InvoiceIds, status \in {"open", "paid"},
        subscription \in {"sub_stripe_1", "sub_stripe_2"}}

RolloverUnits == [{"meter_1", "meter_2"} -> {0, 2}]

NextMeters ==
    \E invoice \in MeterInvoices, rollover_units \in RolloverUnits :
        create_order_from_stripe(invoice, None, <<>>, invoice, rollover_units) /\ UNCHANGED background

SpecMeters == Init /\ [][NextMeters]_vars

MeterEvents(made, name) ==
    SelectSeq(made, LAMBDA e : e.kind = "event" /\ e.name = name)

\* C14: an order created for a subscription with N usage meters comes with N
\* meter_reset events, one per meter; a meter has a meter_credited event
\* exactly when the units it carries over are positive, the event carries
\* those units, and it comes after the meter's meter_reset event.
C14_MeterResetAndCredit ==
    (last.op = "create_order_from_stripe" /\ last.result = "ok")
    => LET meters == Subscription(last.input.invoice.subscription).meters
           resets == MeterEvents(effects, "meter_reset")
           credits == MeterEvents(effects, "meter_credited")
       IN  /\ Len(resets) = Len(meters)
           /\ \A i \in 1..Len(meters) : resets[i].arg = meters[i]
           /\ \A i \in 1..Len(credits) : credits[i].arg \in Range(meters)
           /\ \A meter \in Range(meters) :
                \E r \in DOMAIN effects :
                    /\ effects[r].name = "get_rollover_units"
                    /\ effects[r].arg = meter
                    /\ IF effects[r].returned > 0
                       THEN /\ \E i, j \in DOMAIN effects :
                                /\ i < j
                                /\ effects[i].name = "meter_reset"
                                /\ effects[i].arg = meter
                                /\ effects[j].name = "meter_credited"
                                /\ effects[j].arg = meter
                                /\ effects[j].units = effects[r].returned
                            /\ Cardinality({j \in DOMAIN credits :
                                                credits[j].arg = meter}) = 1
                       ELSE \A j \in DOMAIN credits : credits[j].arg # meter

C14_Witness ==
    /\ last.op = "create_order_from_stripe"
    /\ last.result = "ok"
    /\ last.input.invoice.subscription = "sub_stripe_1"
    /\ Len(MeterEvents(effects, "meter_reset")) = 2
    /\ Len(MeterEvents(effects, "meter_credited")) = 1
    /\ MeterEvents(effects, "meter_credited")[1].arg = "meter_2"
    /\ MeterEvents(effects, "meter_credited")[1].units = 2

(***************************************************************************)
(* The transition notifier under every operation that runs it: orders from *)
(* checkouts and from invoices, with and without an originating checkout,  *)
(* paid or not at creation, then updated and invoiced.                     *)
(***************************************************************************)
MaxNotifiedOrders == 1

NotifierPayments == {NoPayment, [processor_id |-> "ch_1", amount |-> 10]}

NotifierInvoices ==
    {[BaseInvoice EXCEPT !.status = status, !.billing_reason = billing_reason,
                         !.metadata_checkout_id = metadata_checkout_id] :
        status \in {"open", "paid"},
        billing_reason \in {"subscription_cycle", "subscription_create"},
        metadata_checkout_id \in {None, "ck_1"}}

NextNotifier ==
    \/ \E payment \in NotifierPayments :
            /\ Len(orders) < MaxNotifiedOrders
            /\ create_from_checkout(BaseCheckout, payment, NoCalculation) /\ UNCHANGED background
    \/ \E invoice \in NotifierInvoices :
            /\ Len(orders) < MaxNotifiedOrders
            /\ create_order_from_stripe(invoice, None, <<>>, invoice, NoRollover) /\ UNCHANGED background
    \/ \E invoice \in DocumentInvoices :
            update_order_from_stripe(invoice, None) /\ UNCHANGED background
    \/ \E id \in OrderIds : trigger_invoice_generation(id) /\ UNCHANGED background
    \/ \E id \in OrderIds : generate_invoice(id) /\ UNCHANGED background

SpecNotifier == Init /\ [][NextNotifier]_vars

(***************************************************************************)
(* Properties of the transition notifier.                                  *)
(***************************************************************************)
Created ==
    /\ last.op \in {"create_from_checkout", "create_order_from_stripe"}
    /\ last.result = "ok"

\* What the notifier emits: webhooks, its two jobs and the checkout event.
IsNotification(e) ==
    \/ e.kind = "webhook"
    \/ e.kind = "checkout_event"
    \/ e.kind = "job" /\ e.name \in {"order.discord_notification",
                                    "benefit.enqueue_benefit_grant_cycles"}

Notifications == SelectSeq(effects, IsNotification)

Kinds(made) == [i \in DOMAIN made |-> <<made[i].kind, made[i].name>>]

Delivered(event_type) ==
    IF organization_exists THEN <<<<"webhook", event_type>>>> ELSE <<>>

\* C18: a creation, from a checkout or from an invoice, ends with the
\* notifier: the order_created webhook, then the order.discord_notification
\* job, then the paid-transition effects exactly when the order is paid, then
\* the checkout-channel order_created event exactly when the order has a
\* checkout; all for the new order.  (A webhook is delivered when the
\* organization resolves.)
C18_CreationNotifications ==
    Created
    => LET order == orders[last.order]
           expected ==
                Delivered("order_created")
                \o << <<"job", "order.discord_notification">> >>
                \o (IF order.status = "paid"
                    THEN Delivered("order_paid")
                         \o (IF IsCycleOrder(order)
                             THEN << <<"job",
                                       "benefit.enqueue_benefit_grant_cycles">> >>
                             ELSE <<>>)
                    ELSE <<>>)
                \o (IF order.checkout # None
                    THEN << <<"checkout_event", "order_created">> >>
                    ELSE <<>>)
       IN  /\ Kinds(Notifications) = expected
           /\ \A i \in DOMAIN Notifications : Notifications[i].order = last.order
           /\ Len(effects) >= Len(Notifications)
           /\ SubSeq(effects, Len(effects) - Len(Notifications) + 1, Len(effects))
                = Notifications

C18_Witness ==
    /\ Created
    /\ last.op = "create_order_from_stripe"
    /\ organization_exists
    /\ orders[last.order].status = "paid"
    /\ orders[last.order].checkout = "ck_1"
    /\ orders[last.order].billing_reason = "subscription_cycle"
    /\ Len(Notifications) = 5

\* The paid-transition effects run at the creation of a paid order and at the
\* update that takes an order to paid.
PaidTransition ==
    \/ Created /\ orders[last.order].status = "paid"
    \/ /\ last.op = "update_order_from_stripe"
       /\ last.result = "ok"
       /\ last.was # "paid"
       /\ orders[last.order].status = "paid"

BenefitsGrants ==
    SelectSeq(effects, LAMBDA e :
        e.kind = "job" /\ e.name = "benefit.enqueue_benefits_grants")

C21_SettlementBeforePayment ==
    [][(/\ last'.op = "create_order_balance"
        /\ ~ payment_transactions[last'.input.charge_id].recorded)
       => (/\ last'.result = "PaymentTransactionForChargeDoesNotExist"
           /\ held_balances' = held_balances
           /\ balance_transactions' = balance_transactions
           /\ payment_transactions' = payment_transactions
           /\ effects' = <<>>)]_vars

C21_Witness ==
    /\ last.op = "create_order_balance"
    /\ last.result = "PaymentTransactionForChargeDoesNotExist"
    /\ last.input.charge_id = "ch_2"
    /\ payment_transactions["ch_1"].recorded
    /\ ~ payment_transactions["ch_2"].recorded
    /\ Len(held_balances) = 1
    /\ balance_transactions = <<>>

\* The number of times money is attached for the payment transaction of a
\* charge: its HeldBalance rows and its balance transfers.
Attached(charge_id) ==
    Cardinality({i \in DOMAIN held_balances :
                    held_balances[i].payment_transaction = charge_id})
    + Cardinality({i \in DOMAIN balance_transactions :
                    balance_transactions[i].payment_transaction = charge_id})

\* C22: whatever the create_order_balance calls for a charge and whenever the
\* payout account is set up between them, money is attached for the charge's
\* payment transaction at most once, as a HeldBalance or as a balance transfer.
C22_MoneyAttachedOnce ==
    \A charge_id \in Charges : Attached(charge_id) <= 1

(***************************************************************************)
(* Settlements of one charge on one order that run side by side.           *)
(***************************************************************************)
MaxSessions == 2

Sessions == 1..MaxSessions

NextConcurrentBalance ==
    \/ /\ Len(orders) < 1
       /\ create_from_checkout(BaseCheckout, NoPayment, NoCalculation)
       /\ UNCHANGED background
    \/ record_payment_transaction("ch_1") /\ UNCHANGED background
    \/ create_account /\ UNCHANGED background
    \/ \E session \in Sessions, id \in OrderIds :
            create_order_balance_lookup(session, id, "ch_1") /\ UNCHANGED queue
    \/ \E s \in in_flight : create_order_balance_write(s) /\ UNCHANGED queue

SpecConcurrentBalance == Init /\ [][NextConcurrentBalance]_vars

\* C23: when invocations of create_order_balance for one order and charge run
\* side by side, the existence lookups keep the payment transaction of the
\* charge to one HeldBalance and to one balance transfer.
C23_ConcurrentSettlementOnce ==
    \A charge_id \in Charges :
        /\ Cardinality({i \in DOMAIN held_balances :
                held_balances[i].payment_transaction = charge_id}) <= 1
        /\ Cardinality({i \in DOMAIN balance_transactions :
                balance_transactions[i].payment_transaction = charge_id}) <= 1

(***************************************************************************)
(* Invoices of every status, draft ones with and without pending metered   *)
(* usage; the invoice reloaded after items were added carries new totals.  *)
(***************************************************************************)
DraftInvoices ==
    {[BaseInvoice EXCEPT !.id = id, !.status = status,
                         !.billing_reason = billing_reason] :
        id \in InvoiceIds, status \in {"draft", "open", "paid"},
        billing_reason \in {"subscription_cycle", "subscription_create"}}

pending_item ==
    [label |-> "usage", amount |-> 5, tax_amount |-> 0, proration |-> FALSE,
     product_price |-> "pp_2"]

PendingItems == {<<>>, <<pending_item>>}

NextDraft ==
    \E invoice \in DraftInvoices, pending_items \in PendingItems :
        create_order_from_stripe(invoice, None, pending_items,
                                 [invoice EXCEPT !.subtotal = 15], NoRollover)
        /\ UNCHANGED background

SpecDraft == Init /\ [][NextDraft]_vars

CreatedFromInvoice ==
    last.op = "create_order_from_stripe" /\ last.result = "ok"

Calls(name) == SelectSeq(effects, LAMBDA e : e.name = name)

PendingPulls == Calls("create_order_items_from_pending")

\* C25 as claimed: a draft invoice is reloaded and its statement descriptor
\* set only when a pending item was added, neither happens for a draft invoice
\* with no pending item, and a non-draft invoice pulls in no pending items.
C25_DescriptorOnlyWithPendingItems ==
    CreatedFromInvoice
    => LET draft == last.input.invoice.status = "draft"
           added == draft /\ PendingPulls # <<>> /\ PendingPulls[1].returned > 0
       IN  /\ ~ draft => PendingPulls = <<>>
           /\ Len(Calls("get_invoice")) = (IF added THEN 1 ELSE 0)
           /\ Len(Calls("update_invoice")) = (IF added THEN 1 ELSE 0)

\* C25, amended: a draft invoice pulls in the pending items and has its
\* statement descriptor set whether or not an item was added, and is reloaded
\* exactly when an item was added (the reload comes before the descriptor, and
\* the order takes its totals from the reloaded invoice); a non-draft invoice
\* pulls in nothing, is not reloaded and has no descriptor set.
C25_DescriptorOnEveryDraft ==
    CreatedFromInvoice
    => LET draft == last.input.invoice.status = "draft"
           added == draft /\ PendingPulls # <<>> /\ PendingPulls[1].returned > 0
           order == orders[last.order]
       IN  /\ Len(PendingPulls) = (IF draft THEN 1 ELSE 0)
           /\ Len(Calls("get_invoice")) = (IF added THEN 1 ELSE 0)
           /\ Len(Calls("update_invoice")) = (IF draft THEN 1 ELSE 0)
           /\ added =>
                \E i, j \in DOMAIN effects :
                    /\ i < j
                    /\ effects[i].name = "get_invoice"
                    /\ effects[j].name = "update_invoice"
           /\ order.subtotal_amount =
                (IF added THEN 15 ELSE last.input.invoice.subtotal)
           /\ Len(order.items) =
                Len(last.input.invoice.lines) + (IF added THEN 1 ELSE 0)

C25_Witness ==
    /\ CreatedFromInvoice
    /\ last.input.invoice.status = "draft"
    /\ PendingPulls[1].returned = 0
    /\ Calls("get_invoice") = <<>>
    /\ Len(Calls("update_invoice")) = 1
    /\ orders[last.order].subtotal_amount = 10

\* C26: an order created from an invoice is paid when the invoice is paid and
\* pending for every other invoice status; the paid-transition effects (the
\* order_paid webhook, delivered when the organization resolves, and the
\* grant cycles of a subscription_cycle order) run in the creation of a paid
\* order and not in that of a pending one.
C26_StatusAtCreation ==
    CreatedFromInvoice
    => LET order == orders[last.order]
           is_paid == last.input.invoice.status = "paid"
       IN  /\ order.status = (IF is_paid THEN "paid" ELSE "pending")
           /\ Webhooks("order_paid") = (IF is_paid THEN Sent ELSE 0)
           /\ GrantCycles = (IF is_paid /\ IsCycleOrder(order) THEN 1 ELSE 0)

C26_Witness ==
    /\ CreatedFromInvoice
    /\ organization_exists
    /\ last.input.invoice.status = "draft"
    /\ orders[last.order].status = "pending"
    /\ orders[last.order].billing_reason = "subscription_cycle"
    /\ Webhooks("order_paid") = 0
    /\ Webhooks("order_created") = 1
    /\ Len(orders) = 2
    /\ orders[1].status = "paid"

(***************************************************************************)
(* Invoice events applied in arrival order, for invoices that stay paid    *)
(* once paid: an event for an invoice one of whose orders is paid is paid. *)
(***************************************************************************)
InArrivalOrder(invoice) ==
    \A id \in get_by_stripe_invoice_id(invoice.id) :
        paid(orders[id]) => invoice.status = "paid"

NextOrdered ==
    \/ \E invoice \in ReconcileCreations :
            /\ InArrivalOrder(invoice)
            /\ create_order_from_stripe(invoice, None, <<>>, invoice, NoRollover)
            /\ UNCHANGED background
    \/ \E invoice \in ReconcileUpdates, latest_charge \in {None, "ch_2"} :
            /\ InArrivalOrder(invoice)
            /\ update_order_from_stripe(invoice, latest_charge)
            /\ UNCHANGED background

SpecOrdered == Init /\ [][NextOrdered]_vars

PaidWebhooksFor(made) ==
    {made[i].order : i \in {j \in DOMAIN made :
        made[j].kind = "webhook" /\ made[j].name = "order_paid"}}

\* C27: when the events of an invoice are applied in arrival order and the
\* invoice stays paid once paid, no step takes an order from paid to pending,
\* and a step sends order_paid for an order, once, only when it creates the
\* order paid or takes it from pending to paid: so order_paid is sent at most
\* once per order.
C27_PaidOnceInOrder ==
    [][/\ \A id \in OrderIds : paid(orders[id]) => paid(orders'[id])
       /\ Count(effects', "webhook", "order_paid") <= 1
       /\ \A id \in PaidWebhooksFor(effects') :
            /\ id \in OrderIds => ~ paid(orders[id])
            /\ paid(orders'[id])]_vars

C27_Witness ==
    /\ last.op = "update_order_from_stripe"
    /\ last.result = "ok"
    /\ last.repeated
    /\ last.was = "paid"
    /\ last.input.invoice.status = "paid"
    /\ last.input.invoice.charge = None
    /\ organization_exists
    /\ Webhooks("order_paid") = 0
    /\ Webhooks("order_updated") = 1
    /\ orders[last.order].status = "paid"

(***************************************************************************)
(* The write path and the job system.  A call of the write path hands its  *)
(* order.invoice and order.balance jobs to the queue; a worker takes a job *)
(* from the queue and runs the service method the job names.               *)
(***************************************************************************)
MaxJobOrders == 1

MaxQueued == 2

Job(name, order, arg) == [name |-> name, order |-> order, arg |-> arg]

RECURSIVE Enqueued(_)
Enqueued(made) ==
    IF made = <<>> THEN EmptyBag
    ELSE (IF Head(made).kind = "job"
             /\ Head(made).name \in {"order.invoice", "order.balance"}
          THEN SetToBag({Job(Head(made).name, Head(made).order, Head(made).arg)})
          ELSE EmptyBag)
         (+) Enqueued(Tail(made))

\* enqueue_job: fire and forget, the jobs of the call join the queue.
enqueue_jobs ==
    /\ queue' = queue (+) Enqueued(effects')
    /\ \A job \in BagToSet(queue') : CopiesIn(job, queue') <= MaxQueued
    /\ UNCHANGED in_flight

\* The worker of order.invoice runs generate_invoice(order_id).
order_invoice(job) ==
    /\ BagIn(job, queue)
    /\ job.name = "order.invoice"
    /\ generate_invoice(job.order)
    /\ queue' = queue (-) SetToBag({job})
    /\ UNCHANGED in_flight

\* The worker of order.balance runs create_order_balance(order_id, charge_id).
order_balance(job) ==
    /\ BagIn(job, queue)
    /\ job.name = "order.balance"
    /\ create_order_balance(job.order, job.arg)
    /\ queue' = queue (-) SetToBag({job})
    /\ UNCHANGED in_flight

JobPayments == {NoPayment, [processor_id |-> "ch_1", amount |-> 10]}

JobInvoices ==
    {[BaseInvoice EXCEPT !.status = status, !.charge = charge] :
        status \in {"open", "paid"}, charge \in {None, "ch_1"}}

JobUpdates ==
    {order_update \in OrderUpdatesOf({"Ann"}, {"FR"}) :
        order_update.model_fields_set = invoice_locked_fields}

NextJobs ==
    \/ \E payment \in JobPayments :
            /\ create_from_checkout(BaseCheckout, payment, NoCalculation)
            /\ Len(orders') <= MaxJobOrders
            /\ enqueue_jobs
    \/ \E invoice \in DocumentInvoices :
            /\ create_order_from_stripe(invoice, None, <<>>, invoice, NoRollover)
            /\ Len(orders') <= MaxJobOrders
            /\ enqueue_jobs
    \/ \E invoice \in JobInvoices :
            update_order_from_stripe(invoice, None) /\ enqueue_jobs
    \/ \E id \in OrderIds : trigger_invoice_generation(id) /\ enqueue_jobs
    \/ \E id \in OrderIds, order_update \in JobUpdates :
            update(id, order_update) /\ UNCHANGED background
    \/ record_payment_transaction("ch_1") /\ UNCHANGED background
    \/ create_account /\ UNCHANGED background
    \/ \E job \in BagToSet(queue) : order_invoice(job)
    \/ \E job \in BagToSet(queue) : order_balance(job)

SpecJobs == Init /\ [][NextJobs]_vars

WritePath ==
    {"create_from_checkout", "create_order_from_stripe",
     "update_order_from_stripe", "trigger_invoice_generation"}

\* The step settles a charge, or generates a document.
Settles ==
    \/ held_balances' # held_balances
    \/ balance_transactions' # balance_transactions

Generates ==
    \/ last'.op = "generate_invoice"
    \/ \E id \in OrderIds : orders'[id].invoice_path # orders[id].invoice_path

\* The step takes one job of that name, for the order it acts on, off the queue.
Takes(name) ==
    \E job \in BagToSet(queue) :
        /\ job.name = name
        /\ job.order = last'.order
        /\ queue' = queue (-) SetToBag({job})

\* C24: a call of create_from_checkout, create_order_from_stripe,
\* update_order_from_stripe or trigger_invoice_generation creates no
\* HeldBalance and no balance transfer and sets no invoice_path, it only adds
\* jobs to the queue; and every step that settles a charge or generates a
\* document takes its order.balance or order.invoice job off the queue, where
\* an earlier call enqueued it.
C24_NeverInline ==
    [][/\ last'.op \in WritePath =>
            /\ ~ Settles
            /\ \A id \in 1..Len(orders') :
                    orders'[id].invoice_path =
                        IF id \in OrderIds THEN orders[id].invoice_path ELSE None
            /\ queue' = queue (+) Enqueued(effects')
       /\ Settles => last'.op \notin WritePath /\ Takes("order.balance")
       /\ Generates => last'.op \notin WritePath /\ Takes("order.invoice")]_vars

C24_Witness ==
    /\ last.op = "generate_invoice"
    /\ orders[last.order].invoice_path # None
    /\ Len(held_balances) + Len(balance_transactions) >= 1

BalanceJob(order, charge_id) == Job("order.balance", order, charge_id)

\* C28: every update event with invoice status paid and a charge adds one
\* order.balance job for the order and the charge to the queue, whatever the
\* status of the order was before the event: the same paid event applied
\* twice leaves two such jobs.
C28_BalanceEnqueuedOnEveryPaidEvent ==
    [][(/\ last'.op = "update_order_from_stripe"
        /\ last'.result = "ok"
        /\ last'.input.invoice.status = "paid"
        /\ last'.input.invoice.charge # None)
       => LET job == BalanceJob(last'.order, last'.input.invoice.charge)
          IN  /\ Len(BalanceJobs(effects')) = 1
              /\ CopiesIn(job, queue') = CopiesIn(job, queue) + 1]_vars

C28_Witness ==
    /\ last.op = "update_order_from_stripe"
    /\ last.result = "ok"
    /\ last.repeated
    /\ last.was = "paid"
    /\ last.input.invoice.status = "paid"
    /\ last.input.invoice.charge = "ch_1"
    /\ CopiesIn(BalanceJob(last.order, "ch_1"), queue) = 2
    /\ Webhooks("order_paid") = 0

\* C29: an order whose invoice_path is set has status paid.
C29_DocumentOnlyOnPaidOrder ==
    \A id \in OrderIds :
        orders[id].invoice_path # None => orders[id].status = "paid"

\* C30: generate_invoice runs only on an order that has no document yet, so
\* the document of an order is generated at most once.
C30_DocumentGeneratedOnce ==
    [][last'.op = "generate_invoice"
       => orders[last'.order].invoice_path = None]_vars

(***************************************************************************)
(* Updates that carry a field the invoice lock does not name beside the    *)
(* billing fields, on an order with or without a document.                 *)
(***************************************************************************)
MaxFramedOrders == 1

update_fields == invoice_locked_fields \cup {"custom_field_data"}

FrameUpdates ==
    {[model_fields_set |-> fields,
      billing_name |-> IF "billing_name" \in fields THEN name ELSE None,
      billing_address |-> IF "billing_address" \in fields THEN address ELSE None,
      custom_field_data |-> IF "custom_field_data" \in fields THEN data ELSE None] :
        fields \in SUBSET update_fields,
        name \in {"Ann", "Bob"}, address \in {"FR", "US"}, data \in {"a", "b"}}

NextFrame ==
    \/ \E invoice \in DocumentInvoices :
            /\ Len(orders) < MaxFramedOrders
            /\ create_order_from_stripe(invoice, None, <<>>, invoice, NoRollover)
            /\ UNCHANGED background
    \/ \E id \in OrderIds, order_update \in FrameUpdates :
            update(id, order_update) /\ UNCHANGED background
    \/ \E id \in OrderIds : generate_invoice(id) /\ UNCHANGED background

SpecFrame == Init /\ [][NextFrame]_vars

\* The locked fields an update sets to another value than the order's.
LockedChanges(order, order_update) ==
    {field \in invoice_locked_fields \cap order_update.model_fields_set :
        order_update[field] # order[field]}

\* C31: a rejected update changes nothing, not the order (the fields of the
\* update that the lock does not reject included) nor anything else, and
\* sends no order_updated webhook; and an update of an order with a document
\* is rejected only for the locked fields it sets to another value than the
\* order's, so one that sets a locked field to its current value, and no
\* locked field to another, is applied.
C31_RejectedUpdateChangesNothing ==
    [][last'.op = "update" =>
        LET order == orders[last'.order]
            order_update == last'.input.order_update
        IN  /\ last'.result = "PolarRequestValidationError" =>
                /\ UNCHANGED db
                /\ effects' = <<>>
            /\ (order.invoice_path # None
                    /\ LockedChanges(order, order_update) = {}) =>
                /\ last'.result = "ok"
                /\ orders'[last'.order] = apply_update(order, order_update)
            /\ last'.input.loc =
                    IF order.invoice_path # None
                    THEN LockedChanges(order, order_update) ELSE {}]_vars

C31_Witness ==
    /\ last.op = "update"
    /\ last.result = "PolarRequestValidationError"
    /\ last.input.order_update.model_fields_set = update_fields
    /\ last.input.loc = {"billing_name"}
    /\ orders[last.order].invoice_path # None
    /\ orders[last.order].billing_address = last.input.order_update.billing_address
    /\ orders[last.order].billing_name # last.input.order_update.billing_name
    /\ orders[last.order].custom_field_data # last.input.order_update.custom_field_data
    /\ organization_exists
====
